---------------------------- MODULE Spec2Model ----------------------------
(***************************************************************************)
(* A model of barista's bar supervisor (src/src/bar/server.rs), its feeds  *)
(* (src/src/bar/feed.rs), the bar buffer (src/src/bar/mod.rs) and the      *)
(* daemon's start-up / shut-down path (src/src/main.rs).                   *)
(*                                                                         *)
(* Positions are 1-based here (the code's pos + 1).  An Option<T> is a     *)
(* sequence of length at most one: None is <<>>, Some(x) is <<x>>.         *)
(* A JoinHandle of a timer task is the state of the task it points to:     *)
(* "none" (no handle stored), "sleeping" (task still in sleep) or "done"   *)
(* (task has sent its message and finished).                               *)
(***************************************************************************)
EXTENDS Naturals, Sequences, FiniteSets, TLC

\* ------------------------------------------------------------- bounds
\* Largest number of feeds in a configuration.
MaxFeeds == 2
\* Largest number of messages waiting in the supervisor's mailbox (the
\* channel is unbounded; a producer waits in the model while it is full).
MaxQueue == 1
\* Number of control clients (CLI invocations talking over the socket).
NumClients == 1
\* Largest number of faults of the environment in one run: a feed that
\* fails to start, a killpg that fails, a feed's stdout that fails to read.
MaxFaults == 1
\* Largest number of timer tasks whose JoinHandle has been dropped while
\* the task was still sleeping.
MaxDetached == 1

\* ------------------------------------------------------------- values
None == <<>>
Some(x) == <<x>>

\* The daemon itself (main.rs) talks to the supervisor as client 0.
Main == 0
Clients == 0 .. NumClients
Cli == 1 .. NumClients

\* A feed configuration is its Option<f64> ttl, kept as "has a ttl".  The
\* configurations read from conf.toml are the prefixes of one list of feeds,
\* of which every other one has a ttl.
FeedCfg(i) == i % 2 = 1
Confs == { [i \in 1 .. n |-> FeedCfg(i)] : n \in 0 .. MaxFeeds }

\* Lines a feed may print.
Lines == { <<"a", "b">> }

\* Conf::default: expiry_character, pad_left, sep, pad_right.
ExpiryChar == "_"
ClearChar == " "
PadLeft == <<" ">>
Sep == <<" ", " ", " ">>
PadRight == <<" ">>

\* ------------------------------------------------------------- Bar
\* String::len(): the length in bytes of the UTF-8 encoding.  The
\* characters named in WideChars take two bytes.
WideChars == { "e2" }
Utf8Len(c) == IF c \in WideChars THEN 2 ELSE 1

RECURSIVE ByteLen(_)
ByteLen(s) == IF s = <<>> THEN 0 ELSE Utf8Len(Head(s)) + ByteLen(Tail(s))

\* A join that leaves the separators out.
RECURSIVE JoinNoSep(_, _)
JoinNoSep(slots, sep) ==
    IF slots = <<>> THEN <<>> ELSE slots[1] \o JoinNoSep(Tail(slots), sep)

RECURSIVE Join(_, _)
Join(slots, sep) ==
    IF slots = <<>> THEN <<>>
    ELSE IF Len(slots) = 1 THEN slots[1]
    ELSE slots[1] \o sep \o Join(Tail(slots), sep)

BarNew(n) == [slots |-> [i \in 1 .. n |-> <<>>], shown |-> FALSE]

BarFromConf(c) == BarNew(Len(c))

BarSet(b, i, data) == [slots |-> [b.slots EXCEPT ![i] = data], shown |-> FALSE]

BarOverwrite(b, i, c) == BarSet(b, i, [k \in 1 .. ByteLen(b.slots[i]) |-> c])

BarClear(b, i) == BarOverwrite(b, i, ClearChar)

BarExpire(b, i) == BarOverwrite(b, i, ExpiryChar)

\* clear_all: clear(i) for every slot; with no slot nothing is touched.
BarClearAll(b) ==
    IF b.slots = <<>> THEN b
    ELSE [slots |-> [i \in DOMAIN b.slots |->
                        [k \in 1 .. ByteLen(b.slots[i]) |-> ClearChar]],
          shown |-> FALSE]

\* A show_unshown that returns the bar whether or not it was shown.
ShowUnshownAlways(b) == Some(PadLeft \o Join(b.slots, Sep) \o PadRight)

BarShow(b) == PadLeft \o Join(b.slots, Sep) \o PadRight

\* show_unshown: the Option<String> returned, and the bar afterwards.
ShowUnshown(b) == IF b.shown THEN None ELSE Some(BarShow(b))
AfterShow(b) == [b EXCEPT !.shown = TRUE]

\* What a caller of Bar has seen: whether set, clear or expire has run since
\* the construction or the last show_unshown that returned Some (a new Bar
\* counts as written), its last call and the slot it named, and what the
\* last show_unshown returned.
NoProbe == [mutated |-> TRUE, op |-> "new", i |-> 0, ret |-> None]

\* ------------------------------------------------------------- state
VARIABLES
    state,              \* Server.state: "Off", "On", "Offing"
    conf,               \* Server.conf.feeds
    bar,                \* Server.bar
    feeds,              \* Server.feeds: Seq of Option<Feed>
    expiration_timers,  \* Server.expiration_timers: Seq of handles
    output_timer,       \* Server.output_timer: a handle
    mailbox,            \* the mpsc channel of Api messages
    sup,                \* the task of run(): "run", "err", "panic"
    orphans,            \* feeds whose Feed struct was dropped, still running
    detached,           \* messages of sleeping timers whose handle was dropped
    pid_files,          \* positions whose feeds/NN-name/pid file exists
    off_task,           \* per client: the task spawned to send Off's reply
    reply,              \* per client: the oneshot reply, not yet received
    client,             \* per client: what it is waiting for
    daemon,             \* main.rs server(): where it is
    published,          \* what output_data was last called with
    swept,              \* try_kill_all has run
    faults,             \* the faults of the environment so far
    x11,                \* Server.x11: "none" or "open"
    files,              \* which of <dir>/pid and <dir>/socket exist
    probe,              \* what a caller of Bar, or of ps, has observed
    cap,                \* how many messages the mailbox holds in this run
    notified            \* off_feed is between notify_waiters and its end

vars == << state, conf, bar, feeds, expiration_timers, output_timer, mailbox,
           sup, orphans, detached, pid_files, off_task, reply, client, daemon,
           published, swept, faults, x11, files, probe, cap, notified >>

\* The supervisor's own fields.
server == << state, conf, bar, feeds, expiration_timers, output_timer >>

\* What was last published: nothing yet, the bar, or the blank string.
NoOutput == "none"
Blank == "blank"
Shown == "bar"

\* ------------------------------------------------------------- feeds
\* Feed::start's result: the child runs, the token is not cancelled, both
\* tasks run, the pid file holds this child's pid (rec).  child is "run"
\* while the shell runs, "kids" when the shell has exited and processes it
\* started still hold its stdout, "dead" when the whole group is gone.
NewFeed(pos) ==
    [pos |-> pos, child |-> "run", life |-> FALSE, wk |-> "wait",
     reader |-> "run", rec |-> TRUE]

IsSome(o) == o # None
Live(fs) == { i \in DOMAIN fs : IsSome(fs[i]) }

\* ------------------------------------------------------------- messages
Msg(type, pos, data, res, from, own) ==
    [type |-> type, pos |-> pos, data |-> data, res |-> res, from |-> from,
     own |-> own, old |-> FALSE]

MsgOn(c) == Msg("On", 0, <<>>, "ok", c, TRUE)
MsgOff(c) == Msg("Off", 0, <<>>, "ok", c, TRUE)
MsgReconf(c) == Msg("Reconf", 0, <<>>, "ok", c, TRUE)
MsgStatus(c) == Msg("Status", 0, <<>>, "ok", c, TRUE)
MsgFeedExit(pos, res, own) ==
    [Msg("FeedExit", pos, <<>>, res, 0, own) EXCEPT !.old = ~own]
MsgExpiration(pos, own) == Msg("Expiration", pos, <<>>, "ok", 0, own)
MsgInput(pos, data, own) ==
    [Msg("Input", pos, data, "ok", 0, own) EXCEPT !.old = ~own]
MsgOutput(own) == Msg("Output", 0, <<>>, "ok", 0, own)

\* The channel is unbounded; a behaviour is followed while the mailbox
\* holds no more than cap messages.
Room == Len(mailbox) < cap
\* The daemon's process runs its workers: it has started them and has not
\* begun to leave server().
NotServing == { "boot", "refused", "closing", "exited", "failed" }
Running == sup = "run" /\ daemon \notin NotServing

\* Every position a message may carry (0 for the messages without one).
AnyPos == 0 .. MaxFeeds

\* The messages of q of these types and positions lose their sender's
\* handle: it is dropped, aborted or replaced while they wait.
Disown(q, types, poss) ==
    [i \in DOMAIN q |->
        IF q[i].type \in types /\ q[i].pos \in poss
        THEN [q[i] EXCEPT !.own = FALSE] ELSE q[i]]


\* The messages of q that feeds and timers have sent are, once on() runs
\* again, messages of an earlier On (the Output of the output timer that
\* is still stored excepted: on() keeps that timer).
Outdate(q) ==
    [i \in DOMAIN q |->
        CASE q[i].type \in { "FeedExit", "Input", "Expiration" } ->
                [q[i] EXCEPT !.old = TRUE]
          [] q[i].type = "Output" -> [q[i] EXCEPT !.old = ~q[i].own]
          [] OTHER -> q[i]]

\* ------------------------------------------------------------- processes
\* A feed process is reached through its slot in feeds or, once its Feed
\* struct is dropped, through its place in orphans.
FeedLocs == { << "feed", i >> : i \in Live(feeds) }
OrphanLocs == { << "orphan", j >> : j \in DOMAIN orphans }
Locs == FeedLocs \cup OrphanLocs

Proc(loc) == IF loc[1] = "feed" THEN feeds[loc[2]][1] ELSE orphans[loc[2]]

\* A dropped feed is forgotten once its child is dead and its tasks are over.
Gone(f) == f.child = "dead" /\ f.wk = "done" /\ f.reader # "run"
Kept(s) == SelectSeq(s, LAMBDA f : ~Gone(f))

PutFeeds(loc, f) ==
    IF loc[1] = "feed" THEN [feeds EXCEPT ![loc[2]] = Some(f)] ELSE feeds
PutOrphans(loc, f) ==
    IF loc[1] = "orphan" THEN Kept([orphans EXCEPT ![loc[2]] = f]) ELSE orphans

\* A reaper that ends without reporting the exit.
SendNothing(m) == mailbox

\* A task's send on the supervisor's channel: it fails, and is only logged,
\* once the receiver is gone.
Send(m) == IF sup = "run" THEN Append(mailbox, m) ELSE mailbox
CanSend == sup # "run" \/ Room

Alive == daemon \notin NotServing

\* The environment may still fail once more.
MayFail == faults < MaxFaults

\* The supervisor is inside clean_up() of the feed in slot pos, or inside the
\* await of the expiry timer handle of pos: the task it waits for sends
\* whatever the mailbox holds.
AwaitsFeed(loc) ==
    /\ loc[1] = "feed" /\ sup = "run" /\ mailbox # <<>>
    /\ Head(mailbox).type = "FeedExit" /\ Head(mailbox).pos = loc[2]
AwaitsTimer(pos) ==
    /\ sup = "run" /\ mailbox # <<>> /\ state # "Off"
    /\ Head(mailbox).type = "Expiration" /\ Head(mailbox).pos = pos

\* waiter_and_killer, the branch of life.cancelled(): killpg, then
\* start_kill and wait; a failed killpg is the result sent.
WkCancelled(loc, killed) ==
    /\ Alive /\ (CanSend \/ AwaitsFeed(loc))
    /\ Proc(loc).wk = "wait" /\ Proc(loc).life
    /\ ~killed => MayFail
    /\ faults' = IF killed THEN faults ELSE faults + 1
    /\ LET f == [Proc(loc) EXCEPT !.wk = "done",
                                  !.child = IF killed THEN "dead" ELSE @]
           m == MsgFeedExit(f.pos, IF killed THEN "ok" ELSE "err",
                            loc[1] = "feed")
       IN /\ feeds' = PutFeeds(loc, f)
          /\ orphans' = PutOrphans(loc, f)
          /\ mailbox' = Send(m)
    /\ UNCHANGED << state, conf, bar, expiration_timers, output_timer, sup,
                    detached, pid_files, off_task, reply, client, daemon,
                    published, swept >>
    /\ UNCHANGED << x11, files, probe, cap, notified >>

\* waiter_and_killer, the branch of child.wait(): the feed's shell has
\* exited by itself (an unsolicited exit) and is reaped.  Nothing is sent
\* to its process group: the processes it has started live on (all = FALSE)
\* unless they are gone as well.
WkExited(loc, all) ==
    /\ Alive /\ (CanSend \/ AwaitsFeed(loc))
    /\ Proc(loc).wk = "wait" /\ Proc(loc).child = "run"
    /\ LET f == [Proc(loc) EXCEPT !.wk = "done",
                                  !.child = IF all THEN "dead" ELSE "kids"]
       IN /\ feeds' = PutFeeds(loc, f)
          /\ orphans' = PutOrphans(loc, f)
          /\ mailbox' = Send(MsgFeedExit(f.pos, "ok", loc[1] = "feed"))
    /\ UNCHANGED << state, conf, bar, expiration_timers, output_timer, sup,
                    detached, pid_files, off_task, reply, client, daemon,
                    published, swept, faults >>
    /\ UNCHANGED << x11, files, probe, cap, notified >>

\* A child that survived a failed killpg, or the processes an exited
\* shell left behind, exit later, by themselves; nobody waits for them.
ChildExit(loc) ==
    /\ Alive
    /\ Proc(loc).wk = "done" /\ Proc(loc).child \in { "run", "kids" }
    /\ feeds' = PutFeeds(loc, [Proc(loc) EXCEPT !.child = "dead"])
    /\ orphans' = PutOrphans(loc, [Proc(loc) EXCEPT !.child = "dead"])
    /\ UNCHANGED << state, conf, bar, expiration_timers, output_timer, mailbox,
                    sup, detached, pid_files, off_task, reply, client, daemon,
                    published, swept, faults >>
    /\ UNCHANGED << x11, files, probe, cap, notified >>

\* output_reader: a line was read and is sent as Input.  A line the child
\* wrote before it died may still be in the pipe.
ReaderLine(loc, data) ==
    /\ Running /\ Room
    /\ Proc(loc).reader = "run"
    /\ mailbox' = Append(mailbox, MsgInput(Proc(loc).pos, data, loc[1] = "feed"))
    /\ UNCHANGED << state, conf, bar, feeds, expiration_timers, output_timer,
                    sup, orphans, detached, pid_files, off_task, reply, client,
                    daemon, published, swept, faults >>
    /\ UNCHANGED << x11, files, probe, cap, notified >>

\* output_reader: next_line() returns None at end of file (ok = TRUE), or
\* fails, as it does on a line that is not UTF-8 (ok = FALSE).
ReaderEnd(loc, ok) ==
    /\ Alive
    /\ Proc(loc).reader = "run"
    /\ IF ok THEN Proc(loc).child = "dead" ELSE MayFail
    /\ faults' = IF ok THEN faults ELSE faults + 1
    /\ LET f == [Proc(loc) EXCEPT !.reader = IF ok THEN "ok" ELSE "err"]
       IN /\ feeds' = PutFeeds(loc, f)
          /\ orphans' = PutOrphans(loc, f)
    /\ UNCHANGED << state, conf, bar, expiration_timers, output_timer, mailbox,
                    sup, detached, pid_files, off_task, reply, client, daemon,
                    published, swept >>
    /\ UNCHANGED << x11, files, probe, cap, notified >>

\* ------------------------------------------------------------- timers
\* schedule(): the task's sleep is over and it sends its message.
FireOutput ==
    /\ Running /\ Room
    /\ output_timer = "sleeping"
    /\ output_timer' = "done"
    /\ mailbox' = Append(mailbox, MsgOutput(TRUE))
    /\ UNCHANGED << state, conf, bar, feeds, expiration_timers, sup, orphans,
                    detached, pid_files, off_task, reply, client, daemon,
                    published, swept, faults >>
    /\ UNCHANGED << x11, files, probe, cap, notified >>

FireExpiration(pos) ==
    /\ Running /\ (Room \/ AwaitsTimer(pos))
    /\ expiration_timers[pos] = "sleeping"
    /\ expiration_timers' = [expiration_timers EXCEPT ![pos] = "done"]
    /\ mailbox' = Append(mailbox, MsgExpiration(pos, TRUE))
    /\ UNCHANGED << state, conf, bar, feeds, output_timer, sup, orphans,
                    detached, pid_files, off_task, reply, client, daemon,
                    published, swept, faults >>
    /\ UNCHANGED << x11, files, probe, cap, notified >>

Remove(s, j) == [i \in 1 .. Len(s) - 1 |-> IF i < j THEN s[i] ELSE s[i + 1]]

FireDetached(j) ==
    /\ Running /\ Room
    /\ mailbox' = Append(mailbox, detached[j])
    /\ detached' = Remove(detached, j)
    /\ UNCHANGED << state, conf, bar, feeds, expiration_timers, output_timer,
                    sup, orphans, pid_files, off_task, reply, client, daemon,
                    published, swept, faults >>
    /\ UNCHANGED << x11, files, probe, cap, notified >>

\* ------------------------------------------------------------- supervisor
\* run(): the loop has a message to hand to handle().
Receives(type) == Running /\ mailbox # <<>> /\ Head(mailbox).type = type

EnsureOutputScheduled(t) == IF t = "none" THEN "sleeping" ELSE t

\* reschedule_expiration: a new timer when the feed has a ttl; the old
\* handle is aborted.
RescheduleExpiration(timers, pos) ==
    IF conf[pos] THEN [timers EXCEPT ![pos] = "sleeping"] ELSE timers

\* output(): what is published, if anything.
Output(b) == IF ShowUnshown(b) = None THEN published ELSE Shown

\* An output_data that puts the handle back after an error too.
OutputDataKeepsHandle(ok) == "open"

\* output_data with the default destination, the X11 root window name: the
\* handle is opened when absent and put back after a successful write; when
\* X11::init or set_root_window_name fails it is left absent.
OutputData(ok) == IF ok THEN "open" ELSE "none"

\* The faults among these publish attempts.
Failures(ok1, ok2) == (IF ok1 THEN 0 ELSE 1) + (IF ok2 THEN 0 ELSE 1)

\* Feed structs that on() or a failed clean_up drops: the processes stay.
Dropped(fs) ==
    LET F(i) == IF IsSome(fs[i]) THEN fs[i] ELSE <<>>
        RECURSIVE Cat(_)
        Cat(i) == IF i > Len(fs) THEN <<>> ELSE F(i) \o Cat(i + 1)
    IN Cat(1)

\* Timer tasks still sleeping whose handles on() drops without abort.
DroppedTimers(timers) ==
    LET F(i) == IF timers[i] = "sleeping"
                THEN << [MsgExpiration(i, FALSE) EXCEPT !.old = TRUE] >>
                ELSE <<>>
        RECURSIVE Cat(_)
        Cat(i) == IF i > Len(timers) THEN <<>> ELSE F(i) \o Cat(i + 1)
    IN Cat(1)

\* A variant of OnResult: on() returns Ok(()) although a feed did not start.
OnResultAlwaysOk(k) == "ok"

\* What on() returns with k feeds started: Ok(()) when every feed of the
\* configuration has started, the error of Feed::start otherwise.
OnResult(k) == IF k = Len(conf) THEN "ok" ELSE "spawn"

\* An on() that pushes a timer slot only for the feeds before the last.
OnTimersShort(k) ==
    [i \in 1 .. k - 1 |-> IF conf[i] THEN "sleeping" ELSE "none"]

\* The expiry timers on() has pushed with k feeds started: None for each
\* feed, then replaced by reschedule_expiration when the feed has a ttl.
OnTimers(k) == [i \in 1 .. k |-> IF conf[i] THEN "sleeping" ELSE "none"]

\* Server::on, with k feeds started: Feed::start fails for feed k + 1
\* (k < n), or every feed starts (k = n).
on(k, c) ==
    /\ k < Len(conf) => MayFail
    /\ faults' = IF k < Len(conf) THEN faults + 1 ELSE faults
    /\ bar' = BarFromConf(conf)
    /\ feeds' = [i \in 1 .. k |-> Some(NewFeed(i))]
    /\ expiration_timers' = OnTimers(k)
    /\ output_timer' = IF k > 0 THEN EnsureOutputScheduled(output_timer)
                       ELSE output_timer
    /\ orphans' = LET all == orphans \o Dropped(feeds)
                   IN Kept([j \in DOMAIN all |->
                               [all[j] EXCEPT !.rec = @ /\ all[j].pos > k]])
    /\ detached' = Outdate(detached) \o DroppedTimers(expiration_timers)
    /\ pid_files' = pid_files \cup (1 .. k)
    /\ mailbox' = Outdate(Disown(Tail(mailbox),
                                 { "FeedExit", "Input", "Expiration" }, AnyPos))
    /\ state' = IF OnResult(k) = "ok" THEN "On" ELSE state
    /\ reply' = [reply EXCEPT ![c] = OnResult(k)]

\* A variant of OnReplyIn: an On is replied with success in state Offing too.
OnReplyInAlwaysOk(s) == "ok"

\* The reply to an On handled in state On ("Already on. Ignoring.") or in
\* state Offing ("Cannot turn on, still turning off").
OnReplyIn(s) == IF s = "On" THEN "ok" ELSE "offing"

HandleOn ==
    /\ Receives("On") /\ ~notified
    /\ LET c == Head(mailbox).from IN
       CASE state \in { "On", "Offing" } ->
              /\ reply' = [reply EXCEPT ![c] = OnReplyIn(state)]
              /\ mailbox' = Tail(mailbox)
              /\ UNCHANGED << server, orphans, detached, pid_files, faults >>
         [] state = "Off" ->
              /\ \E k \in 0 .. Len(conf) : on(k, c)
              /\ UNCHANGED conf
    /\ UNCHANGED << sup, off_task, client, daemon, published, swept >>
    /\ UNCHANGED << x11, files, probe, cap, notified >>

\* off_begin: stop() every live feed.
off_begin ==
    [i \in DOMAIN feeds |->
        IF IsSome(feeds[i]) THEN Some([feeds[i][1] EXCEPT !.life = TRUE])
        ELSE None]

HandleOff ==
    /\ Receives("Off") /\ ~notified
    /\ LET c == Head(mailbox).from IN
       IF state = "On"
       THEN /\ feeds' = off_begin
            /\ state' = "Offing"
            /\ off_task' = [off_task EXCEPT ![c] = "spawned"]
            /\ UNCHANGED reply
       ELSE /\ reply' = [reply EXCEPT ![c] = "ok"]
            /\ UNCHANGED << feeds, state, off_task >>
    /\ mailbox' = Tail(mailbox)
    /\ UNCHANGED << conf, bar, expiration_timers, output_timer, sup, orphans,
                    detached, pid_files, client, daemon, published, swept, faults >>
    /\ UNCHANGED << x11, files, probe, cap, notified >>

\* A variant of ReconfAllowed: Reconf is served in every state.
ReconfAllowedAlways(s) == TRUE

\* Reconf is served in state Off only ("Cannot reconfigure when not off.").
ReconfAllowed(s) == s = "Off"

\* Conf::load_or_init reads whatever conf.toml holds now, or fails.
HandleReconf ==
    /\ Receives("Reconf") /\ ~notified
    /\ LET c == Head(mailbox).from IN
       IF ReconfAllowed(state)
       THEN \E loaded \in { << "load", conf >> } \cup { << "ok", l >> : l \in Confs } :
              /\ conf' = loaded[2]
              /\ reply' = [reply EXCEPT ![c] = loaded[1]]
              /\ client' = [client EXCEPT ![c].clean =
                               Live(feeds) = {} /\ orphans = <<>>]
       ELSE /\ reply' = [reply EXCEPT ![c] = "notoff"]
            /\ UNCHANGED << conf, client >>
    /\ mailbox' = Tail(mailbox)
    /\ UNCHANGED << state, bar, feeds, expiration_timers, output_timer, sup,
                    orphans, detached, pid_files, off_task, daemon, published,
                    swept, faults >>
    /\ UNCHANGED << x11, files, probe, cap, notified >>

\* Server::status: UpOff when both vectors are empty; otherwise the process
\* list is read (which may fail) and one entry is built per configured feed,
\* indexing feeds by the position in the configuration.
StatusOf(fs, timers) == IF fs = <<>> /\ timers = <<>> THEN "UpOff" ELSE "UpOn"

\* handle()'s Status arm, in every state.
HandleStatus ==
    /\ Receives("Status") /\ ~notified
    /\ LET c == Head(mailbox).from IN
       IF StatusOf(feeds, expiration_timers) = "UpOn" /\ Len(conf) > Len(feeds)
       THEN \* procs[pos]: index out of bounds
            /\ sup' = "panic"
            /\ UNCHANGED << reply, faults >>
       ELSE /\ \E ok \in BOOLEAN :
                 /\ ~ok => MayFail /\ StatusOf(feeds, expiration_timers) = "UpOn"
                 /\ reply' = [reply EXCEPT ![c] =
                        IF ok THEN StatusOf(feeds, expiration_timers) ELSE "err"]
                 /\ faults' = IF ok THEN faults ELSE faults + 1
            /\ UNCHANGED sup
    /\ mailbox' = Tail(mailbox)
    /\ UNCHANGED << server, orphans, detached, pid_files, off_task, client,
                    daemon, published, swept, x11, files, probe, cap, notified >>

\* A clean_up that ignores how the router task ended.
CleanUpFailsNever(f) == FALSE

\* Feed::clean_up fails when the router task ended with an error, or when
\* the pid file is not there to remove.
CleanUpFails(f) == f.reader = "err" \/ f.pos \notin pid_files

\* notify_waiters: the tasks already waiting are woken; a task that has not
\* yet run to notified() will wait on a Notify nobody signals again.
NotifyWaiters(t) ==
    [c \in Clients |-> CASE t[c] = "waiting" -> "woken"
                         [] t[c] = "spawned" -> "lost"
                         [] OTHER -> t[c]]

\* off_feed's drain(0..) of the expiry timers, each one aborted: none is
\* left.
AbortAll(timers) == <<>>

\* An off_feed that publishes no blank.
OutputKept == published

\* output_blank(): output_data is called with the empty string.
OutputBlank == Blank

\* Server::off_feed, through handle()'s two FeedExit arms.
HandleFeedExit ==
    /\ Receives("FeedExit") /\ ~notified
    /\ LET pos == Head(mailbox).pos IN
       IF pos \notin DOMAIN feeds \/ feeds[pos] = None
       THEN \* unreachable!("Feed exited more than once.")
            /\ sup' = "panic"
            /\ mailbox' = Tail(mailbox)
            /\ UNCHANGED << server, orphans, pid_files, off_task, published,
                            x11, faults, notified >>
       ELSE LET feed == feeds[pos][1]
                taken == [feeds EXCEPT ![pos] = None]
                bar1 == BarClear(bar, pos)
                last == state = "Offing" /\ Live(taken) = {}
            IN \* clean_up awaits both of the feed's tasks
               /\ feed.wk = "done" /\ feed.reader # "run"
               /\ feeds' = taken
               /\ IF CleanUpFails(feed)
                  THEN /\ sup' = "err"
                       /\ orphans' = Kept(Append(orphans, feed))
                       /\ mailbox' = Tail(mailbox)
                       /\ UNCHANGED << state, conf, bar, expiration_timers,
                                       output_timer, pid_files, off_task,
                                       published, x11, faults, notified >>
                  ELSE /\ pid_files' = pid_files \ { pos }
                       /\ orphans' = Kept(Append(orphans, [feed EXCEPT !.rec = FALSE]))
                       /\ bar' = AfterShow(bar1)
                       /\ published' = Output(bar1)
                       /\ \E ok1 \in BOOLEAN :
                             /\ faults + Failures(ok1, TRUE) <= MaxFaults
                             /\ faults' = faults + Failures(ok1, TRUE)
                             /\ IF last
                                THEN \* output(), then x11.take()
                                     x11' = "none"
                                ELSE x11' = OutputData(ok1)
                       /\ IF last
                          THEN \* up to notify_waiters(): the handler goes
                               \* on in OffFeedReturns
                               /\ expiration_timers' = AbortAll(expiration_timers)
                               /\ output_timer' = "none"
                               /\ off_task' = NotifyWaiters(off_task)
                               /\ notified' = TRUE
                               /\ mailbox' = Disown(mailbox,
                                     { "Expiration", "Output" }, AnyPos)
                               /\ UNCHANGED state
                          ELSE /\ mailbox' = Tail(mailbox)
                               /\ UNCHANGED << expiration_timers, output_timer,
                                               off_task, state, notified >>
                       /\ UNCHANGED << conf, sup >>
    /\ UNCHANGED << detached, reply, client, daemon, swept >>
    /\ UNCHANGED << files, probe, cap >>

\* off_feed after notify_waiters(): output_blank().await, then the state
\* becomes Off and the handler returns.  The tasks woken by the Notify run
\* on the runtime's other threads meanwhile.
OffFeedReturns ==
    /\ Running /\ notified
    /\ \E ok2 \in BOOLEAN :
          /\ faults + Failures(TRUE, ok2) <= MaxFaults
          /\ faults' = faults + Failures(TRUE, ok2)
          /\ x11' = OutputData(ok2)
    /\ published' = OutputBlank
    /\ state' = "Off"
    /\ notified' = FALSE
    /\ mailbox' = Tail(mailbox)
    /\ UNCHANGED << conf, bar, feeds, expiration_timers, output_timer, sup,
                    orphans, detached, pid_files, off_task, reply, client,
                    daemon, swept, files, probe, cap >>

\* An Expiration arm that takes the handle and does not await it.
TimerOverAlways(h) == TRUE

\* The .await of a timer's JoinHandle returns once the task has slept and
\* sent its message.
TimerOver(h) == h = "done"

\* A handle() without the arm that ignores messages in state Off.
IgnoredNever(s) == FALSE

\* handle()'s arm for Expiration, Input and Output in state Off: "Ignoring
\* in off state."
IgnoredInOff(s) == s = "Off"

HandleExpiration ==
    /\ Receives("Expiration") /\ ~notified
    /\ LET pos == Head(mailbox).pos IN
       IF IgnoredInOff(state)
       THEN /\ mailbox' = Tail(mailbox)
            /\ UNCHANGED << bar, expiration_timers, output_timer, sup >>
       ELSE IF pos \notin DOMAIN expiration_timers \/ expiration_timers[pos] = "none"
       THEN \* index out of bounds, or unreachable!()
            /\ sup' = "panic"
            /\ mailbox' = Tail(mailbox)
            /\ UNCHANGED << bar, expiration_timers, output_timer >>
       ELSE \* the handle taken is awaited
            /\ TimerOver(expiration_timers[pos])
            /\ expiration_timers' = [expiration_timers EXCEPT ![pos] = "none"]
            /\ bar' = BarExpire(bar, pos)
            /\ output_timer' = EnsureOutputScheduled(output_timer)
            /\ mailbox' = Disown(Tail(mailbox), { "Expiration" }, { pos })
            /\ UNCHANGED sup
    /\ UNCHANGED << state, conf, feeds, orphans, detached, pid_files, off_task,
                    reply, client, daemon, published, swept, faults >>
    /\ UNCHANGED << x11, files, probe, cap, notified >>

HandleInput ==
    /\ Receives("Input") /\ ~notified
    /\ LET pos == Head(mailbox).pos
           data == Head(mailbox).data
       IN
       IF IgnoredInOff(state)
       THEN /\ mailbox' = Tail(mailbox)
            /\ UNCHANGED << bar, expiration_timers, output_timer, sup >>
       ELSE IF \/ pos \notin DOMAIN conf
               \/ conf[pos] /\ pos \notin DOMAIN expiration_timers
               \/ pos \notin DOMAIN bar.slots
               \/ pos \notin DOMAIN feeds
       THEN \* index out of bounds
            /\ sup' = "panic"
            /\ mailbox' = Tail(mailbox)
            /\ UNCHANGED << bar, expiration_timers, output_timer >>
       ELSE /\ expiration_timers' = RescheduleExpiration(expiration_timers, pos)
            /\ bar' = BarSet(bar, pos, data)
            /\ output_timer' = EnsureOutputScheduled(output_timer)
            /\ mailbox' = IF conf[pos]
                          THEN Disown(Tail(mailbox), { "Expiration" }, { pos })
                          ELSE Tail(mailbox)
            /\ UNCHANGED sup
    /\ UNCHANGED << state, conf, feeds, orphans, detached, pid_files, off_task,
                    reply, client, daemon, published, swept, faults >>
    /\ UNCHANGED << x11, files, probe, cap, notified >>

HandleOutput ==
    /\ Receives("Output") /\ ~notified
    /\ IF IgnoredInOff(state)
       THEN /\ mailbox' = Tail(mailbox)
            /\ UNCHANGED << bar, output_timer, sup, detached, published, x11,
                            faults >>
       ELSE IF output_timer = "none"
       THEN \* unreachable!("Output msg arrived without being scheduled.")
            /\ sup' = "panic"
            /\ mailbox' = Tail(mailbox)
            /\ UNCHANGED << bar, output_timer, detached, published, x11,
                            faults >>
       ELSE /\ output_timer' = "none"
            /\ detached' = IF output_timer = "sleeping"
                           THEN Append(detached, MsgOutput(FALSE)) ELSE detached
            /\ published' = Output(bar)
            /\ bar' = AfterShow(bar)
            /\ IF ShowUnshown(bar) = None
               THEN UNCHANGED << x11, faults >>
               ELSE \E ok \in BOOLEAN :
                       /\ faults + Failures(ok, TRUE) <= MaxFaults
                       /\ faults' = faults + Failures(ok, TRUE)
                       /\ x11' = OutputData(ok)
            /\ mailbox' = Disown(Tail(mailbox), { "Output" }, AnyPos)
            /\ UNCHANGED sup
    /\ UNCHANGED << state, conf, feeds, expiration_timers, orphans, pid_files,
                    off_task, reply, client, daemon, swept >>
    /\ UNCHANGED << files, probe, cap, notified >>

\* The task spawned by handle() for an Off in state On: it first runs to
\* notify.notified() ...
OffTaskWaits(c) ==
    /\ Alive
    /\ off_task[c] = "spawned"
    /\ off_task' = [off_task EXCEPT ![c] = "waiting"]
    /\ UNCHANGED << server, mailbox, sup, orphans, detached, pid_files, reply,
                    client, daemon, published, swept, faults >>
    /\ UNCHANGED << x11, files, probe, cap, notified >>

\* ... and, once woken, sends the reply.
OffTaskReplies(c) ==
    /\ Alive
    /\ off_task[c] = "woken"
    /\ off_task' = [off_task EXCEPT ![c] = "none"]
    /\ reply' = [reply EXCEPT ![c] = "ok"]
    /\ UNCHANGED << server, mailbox, sup, orphans, detached, pid_files, client,
                    daemon, published, swept, faults >>
    /\ UNCHANGED << x11, files, probe, cap, notified >>

\* ------------------------------------------------------------- clients
\* A control client calls on, off or reload (control/server.rs) and waits.
Waiting == { "on", "off", "rl_off", "rl_reconf", "rl_on" }

Idle == [pc |-> "idle", clean |-> TRUE]

ClientCalls(c, cmd) ==
    /\ Running /\ Room
    /\ client[c].pc = "idle"
    /\ cmd = "on" => Len(detached) < MaxDetached
    /\ mailbox' = Append(mailbox, CASE cmd = "on" -> MsgOn(c)
                                     [] cmd = "status" -> MsgStatus(c)
                                     [] OTHER -> MsgOff(c))
    /\ client' = [client EXCEPT ![c].pc =
                     CASE cmd = "on" -> "on"
                       [] cmd = "off" -> "off"
                       [] cmd = "status" -> "status"
                       [] cmd = "reload" -> "rl_off"]
    /\ UNCHANGED << server, sup, orphans, detached, pid_files, off_task, reply,
                    daemon, published, swept, faults >>
    /\ UNCHANGED << x11, files, probe, cap, notified >>

\* on(), off(): the reply arrives and the call returns.
ClientReturns(c) ==
    /\ Alive
    /\ reply[c] # "none"
    /\ \/ client[c].pc \in { "on", "off", "rl_on" }
       \/ client[c].pc = "rl_reconf" /\ reply[c] # "ok"
    /\ client' = [client EXCEPT ![c] = Idle]
    /\ reply' = [reply EXCEPT ![c] = "none"]
    /\ UNCHANGED << server, mailbox, sup, orphans, detached, pid_files,
                    off_task, daemon, published, swept, faults >>
    /\ UNCHANGED << x11, files, probe, cap, notified >>

\* The status command while the daemon serves but the supervisor is gone:
\* the connection is made, bar::server::status fails to send and the call
\* returns that error.
ClientStatusUnserved(c) ==
    /\ Alive /\ sup # "run"
    /\ client[c].pc = "idle"
    /\ client' = [client EXCEPT ![c].pc = "status"]
    /\ UNCHANGED << server, mailbox, sup, orphans, detached, pid_files,
                    off_task, reply, daemon, published, swept, faults, x11,
                    files, probe, cap, notified >>

\* Status::to_str of what Client::status has in hand: the status of an
\* Ok(Ok(status)), Status::default() for Ok(Err(_)) and for Err(_).
StatusShown(r) == IF r \in { "UpOff", "UpOn" } THEN r ELSE "Down"

\* Client::status: the call returns, with the supervisor's answer or, the
\* supervisor being gone, with an error; the status is printed.
ClientStatusReturns(c) ==
    /\ Alive
    /\ client[c].pc = "status"
    /\ reply[c] # "none" \/ sup # "run"
    /\ client' = [client EXCEPT ![c] = Idle]
    /\ reply' = [reply EXCEPT ![c] = "none"]
    /\ UNCHANGED << server, mailbox, sup, orphans, detached, pid_files,
                    off_task, daemon, published, swept, faults, x11, files,
                    probe, cap, notified >>

\* Nobody listens on the control socket: the daemon's process has ended.
ConnectFails == daemon \in { "exited", "failed" }

\* client() in main.rs while nobody listens: Client::new(..).await? returns
\* the connection error, client() returns it, and Client::status is never
\* called: the process ends with the error and prints no status.
ClientFailsToConnect(c) ==
    /\ ConnectFails
    /\ client[c].pc = "idle"
    /\ client' = [client EXCEPT ![c].pc = "error"]
    /\ UNCHANGED << server, mailbox, sup, orphans, detached, pid_files,
                    off_task, reply, daemon, published, swept, faults, x11,
                    files, probe, cap, notified >>

\* reload(): off has returned and reconf is sent; reconf has returned Ok and
\* on is sent.
ClientReloads(c) ==
    /\ Running /\ Room
    /\ reply[c] = "ok"
    /\ client[c].pc \in { "rl_off", "rl_reconf" }
    /\ mailbox' = Append(mailbox, IF client[c].pc = "rl_off" THEN MsgReconf(c)
                                  ELSE MsgOn(c))
    /\ client' = [client EXCEPT ![c].pc = IF @ = "rl_off" THEN "rl_reconf"
                                          ELSE "rl_on"]
    /\ reply' = [reply EXCEPT ![c] = "none"]
    /\ UNCHANGED << server, sup, orphans, detached, pid_files, off_task, daemon,
                    published, swept, faults >>
    /\ UNCHANGED << x11, files, probe, cap, notified >>

\* ------------------------------------------------------------- daemon
\* <dir>/pid and <dir>/socket.
DaemonFiles == { "pid", "socket" }

\* A start check that looks at the pid file alone.
MayStartPidOnly(fs) == "pid" \notin fs

\* server() starts only when neither file exists.
MayStart(fs) == "pid" \notin fs /\ "socket" \notin fs

\* server() in main.rs, from its first line: it refuses to start when one of
\* the files exists; otherwise it writes the pid file and spawns the workers,
\* of which the control server binds the socket.
MainBoots ==
    /\ daemon = "boot"
    /\ IF MayStart(files)
       THEN /\ files' = DaemonFiles
            /\ daemon' = "init"
       ELSE /\ daemon' = "refused"
            /\ UNCHANGED files
    /\ UNCHANGED << server, mailbox, sup, orphans, detached, pid_files,
                    off_task, reply, client, published, swept, faults, x11,
                    probe, cap, notified >>

\* server() in main.rs, after both workers are spawned: with --on true it
\* calls on() and waits.
MainStarts(turn_on) ==
    /\ daemon = "init"
    /\ IF turn_on
       THEN /\ Running /\ Room
            /\ mailbox' = Append(mailbox, MsgOn(Main))
            /\ daemon' = "on_wait"
       ELSE /\ daemon' = "serve"
            /\ UNCHANGED mailbox
    /\ UNCHANGED << server, sup, orphans, detached, pid_files, off_task, reply,
                    client, published, swept, faults >>
    /\ UNCHANGED << x11, files, probe, cap, notified >>

\* on(&bar_tx).await?: an error, or a supervisor gone before replying,
\* returns from server() at once.
MainOnReturns ==
    /\ daemon = "on_wait"
    /\ reply[Main] # "none" \/ sup # "run"
    /\ daemon' = IF reply[Main] = "ok" THEN "serve" ELSE "failed"
    /\ reply' = [reply EXCEPT ![Main] = "none"]
    /\ UNCHANGED << server, mailbox, sup, orphans, detached, pid_files,
                    off_task, client, published, swept, faults >>
    /\ UNCHANGED << x11, files, probe, cap, notified >>

\* A process whose pid the pid file at pos holds, while its group can be
\* signalled: it runs, or processes it started do (a child that is dead
\* has been reaped by its waiter and has left nobody).
Signallable(f) == f.rec /\ f.child \in { "run", "kids" }

Group(pos) == { loc \in Locs : Proc(loc).pos = pos /\ Signallable(Proc(loc)) }

\* A shutdown that skips the sweep.
SweepSkipped == UNCHANGED << feeds, orphans, pid_files, swept >>

\* try_kill for every entry of feeds/: killpg fails when the group is gone
\* (ESRCH), and then the pid file is left in place.
try_kill_all ==
    LET killed == { pos \in pid_files : Group(pos) # {} }
        K(f) == IF f.rec /\ f.pos \in killed THEN [f EXCEPT !.child = "dead"] ELSE f
    IN /\ pid_files' = pid_files \ killed
       /\ feeds' = [i \in DOMAIN feeds |->
                       IF IsSome(feeds[i]) THEN Some(K(feeds[i][1])) ELSE None]
       /\ orphans' = [j \in DOMAIN orphans |-> K(orphans[j])]
       /\ swept' = TRUE

\* The select! of server(): a signal arrives, or the workers have exited;
\* then off() is called.  With the supervisor gone off() fails at once and
\* the sweep runs before the files are removed.
MainShutsDown ==
    /\ daemon = "serve"
    /\ IF sup = "run"
       THEN /\ Room
            /\ mailbox' = Append(mailbox, MsgOff(Main))
            /\ daemon' = "off_wait"
            /\ UNCHANGED << feeds, orphans, pid_files, swept >>
       ELSE /\ try_kill_all
            /\ daemon' = "closing"
            /\ UNCHANGED mailbox
    /\ UNCHANGED << state, conf, bar, expiration_timers, output_timer, sup,
                    detached, off_task, reply, client, published, faults >>
    /\ UNCHANGED << x11, files, probe, cap, notified >>

\* off() returns: with the reply, or with an error when the supervisor
\* ended while the Off message was still in the mailbox.
MainOffReturns ==
    /\ daemon = "off_wait"
    /\ IF reply[Main] # "none"
       THEN UNCHANGED << feeds, orphans, pid_files, swept >>
       ELSE /\ sup # "run" /\ off_task[Main] = "none"
            /\ try_kill_all
    /\ daemon' = "closing"
    /\ reply' = [reply EXCEPT ![Main] = "none"]
    /\ UNCHANGED << state, conf, bar, expiration_timers, output_timer, mailbox,
                    sup, detached, off_task, client, published, faults >>
    /\ UNCHANGED << x11, files, probe, cap, notified >>

\* The end of server(): the socket file and the pid file are removed.
MainRemovesFiles ==
    /\ daemon = "closing"
    /\ files' = files \ DaemonFiles
    /\ daemon' = "exited"
    /\ UNCHANGED << server, mailbox, sup, orphans, detached, pid_files,
                    off_task, reply, client, published, swept, faults, x11,
                    probe, cap, notified >>

\* ------------------------------------------------------------- system
\* start() loads the configuration and run() builds Server::new, which
\* arms the output timer.
Init ==
    /\ state = "Off"
    /\ conf \in Confs
    /\ bar = BarFromConf(conf)
    /\ feeds = <<>>
    /\ expiration_timers = <<>>
    /\ output_timer = EnsureOutputScheduled("none")
    /\ mailbox = <<>>
    /\ sup = "run"
    /\ orphans = <<>>
    /\ detached = <<>>
    /\ pid_files = {}
    /\ off_task = [c \in Clients |-> "none"]
    /\ reply = [c \in Clients |-> "none"]
    /\ client = [c \in Clients |-> Idle]
    /\ daemon = "boot"
    /\ published = NoOutput
    /\ swept = FALSE
    /\ faults = 0
    /\ x11 = "none"
    /\ files \in SUBSET DaemonFiles
    /\ probe = NoProbe
    /\ cap = MaxQueue
    /\ notified = FALSE

Handle ==
    \/ HandleFeedExit
    \/ OffFeedReturns
    \/ HandleExpiration
    \/ HandleInput
    \/ HandleOutput
    \/ HandleOn
    \/ HandleOff
    \/ HandleReconf
    \/ HandleStatus

FeedStep ==
    \E loc \in Locs :
        \/ \E killed \in BOOLEAN : WkCancelled(loc, killed)
        \/ \E all \in BOOLEAN : WkExited(loc, all)
        \/ ChildExit(loc)
        \/ \E data \in Lines : ReaderLine(loc, data)
        \/ \E ok \in BOOLEAN : ReaderEnd(loc, ok)

TimerStep ==
    \/ FireOutput
    \/ \E pos \in DOMAIN expiration_timers : FireExpiration(pos)
    \/ \E j \in DOMAIN detached : FireDetached(j)

ClientStep ==
    \E c \in Cli :
        \/ \E cmd \in { "on", "off", "reload", "status" } : ClientCalls(c, cmd)
        \/ ClientReturns(c)
        \/ ClientReloads(c)
        \/ ClientStatusUnserved(c)
        \/ ClientStatusReturns(c)
        \/ ClientFailsToConnect(c)

OffTaskStep ==
    \E c \in Clients : OffTaskWaits(c) \/ OffTaskReplies(c)

MainStep ==
    \/ MainBoots
    \/ \E turn_on \in BOOLEAN : MainStarts(turn_on)
    \/ MainOnReturns
    \/ MainShutsDown
    \/ MainOffReturns
    \/ MainRemovesFiles

Next == Handle \/ FeedStep \/ TimerStep \/ ClientStep \/ OffTaskStep \/ MainStep

Spec == Init /\ [][Next]_vars

\* Fair scheduling: the supervisor handles the message it has received, a
\* timer fires, a spawned task runs, a kill that is sent succeeds, a pipe
\* whose writer is dead reaches end of file, a caller takes its reply.
Fairness ==
    /\ WF_vars(Handle)
    /\ WF_vars(TimerStep)
    /\ WF_vars(OffTaskStep)
    /\ WF_vars(\E loc \in Locs : WkCancelled(loc, TRUE))
    /\ WF_vars(\E loc \in Locs : ReaderEnd(loc, TRUE))
    /\ WF_vars(\E c \in Cli :
                  ClientReturns(c) \/ ClientReloads(c) \/ ClientStatusReturns(c))
    /\ WF_vars(MainBoots \/ MainOnReturns \/ MainOffReturns \/ MainRemovesFiles)

SpecFair == Spec /\ Fairness

\* ------------------------------------------------------------- deep mailbox
\* One feed, which has a ttl, no fault of the environment, callers that
\* only turn the bar on and off, and a mailbox followed three messages
\* deep: the interleavings of a timer's message, a feed's messages and the
\* callers' requests waiting behind one another.
DeepQueue == MaxQueue + 2

InitDeep ==
    /\ state = "Off"
    /\ conf = << FeedCfg(1) >>
    /\ bar = BarFromConf(conf)
    /\ feeds = <<>>
    /\ expiration_timers = <<>>
    /\ output_timer = EnsureOutputScheduled("none")
    /\ mailbox = <<>>
    /\ sup = "run"
    /\ orphans = <<>>
    /\ detached = <<>>
    /\ pid_files = {}
    /\ off_task = [c \in Clients |-> "none"]
    /\ reply = [c \in Clients |-> "none"]
    /\ client = [c \in Clients |-> Idle]
    /\ daemon = "boot"
    /\ published = NoOutput
    /\ swept = FALSE
    /\ faults = MaxFaults
    /\ x11 = "none"
    /\ files = {}
    /\ probe = NoProbe
    /\ cap = DeepQueue
    /\ notified = FALSE

OnOffStep ==
    \E c \in Cli :
        \/ \E cmd \in { "on", "off" } : ClientCalls(c, cmd)
        \/ ClientReturns(c)

HandleOnOff ==
    \/ HandleFeedExit
    \/ OffFeedReturns
    \/ HandleExpiration
    \/ HandleInput
    \/ HandleOutput
    \/ HandleOn
    \/ HandleOff

NextDeep ==
    HandleOnOff \/ FeedStep \/ TimerStep \/ OnOffStep \/ OffTaskStep \/ MainStep

SpecDeep == InitDeep /\ [][NextDeep]_vars

\* ------------------------------------------------------------- Bar alone
\* Slot contents a caller may set: empty, one-byte characters, and a
\* content with a two-byte character.
BarData == { <<>>, <<"a">>, <<"e2", "a">> }

\* Everything but the bar and its caller's observations.
beside_bar == << state, conf, feeds, expiration_timers, output_timer, mailbox,
                 sup, orphans, detached, pid_files, off_task, reply, client,
                 daemon, published, swept, faults, x11, files, cap, notified >>

Called(op, i, wrote) ==
    [probe EXCEPT !.op = op, !.i = i, !.mutated = @ \/ wrote]

BarSets(i, data) ==
    /\ bar' = BarSet(bar, i, data)
    /\ probe' = Called("set", i, TRUE)
    /\ UNCHANGED beside_bar

BarClears(i) ==
    /\ bar' = BarClear(bar, i)
    /\ probe' = Called("clear", i, TRUE)
    /\ UNCHANGED beside_bar

BarExpires(i) ==
    /\ bar' = BarExpire(bar, i)
    /\ probe' = Called("expire", i, TRUE)
    /\ UNCHANGED beside_bar

BarClearsAll ==
    /\ bar' = BarClearAll(bar)
    /\ probe' = Called("clear_all", 0, bar.slots # <<>>)
    /\ UNCHANGED beside_bar

BarShows ==
    /\ bar' = IF ShowUnshown(bar) = None THEN bar ELSE AfterShow(bar)
    /\ probe' = [op |-> "show_unshown", i |-> 0, ret |-> ShowUnshown(bar),
                 mutated |-> probe.mutated /\ ShowUnshown(bar) = None]
    /\ UNCHANGED beside_bar

\* A Bar built by from_conf and called in any order, within its slots.
NextBar ==
    \/ \E i \in DOMAIN bar.slots :
          \/ \E data \in BarData : BarSets(i, data)
          \/ BarClears(i)
          \/ BarExpires(i)
    \/ BarClearsAll
    \/ BarShows

SpecBar == Init /\ [][NextBar]_vars

\* ------------------------------------------------------------- ps alone
\* The pids of a process list; 0 is the parent of the processes without one.
MaxPid == 4
Pids == 1 .. MaxPid

\* A descendants that stops at the children.
ChildrenOnly(parent2children, parent) ==
    IF parent \in DOMAIN parent2children THEN parent2children[parent] ELSE {}

\* collect_descendants: every child, and what is collected from each child.
RECURSIVE collect_descendants(_, _)
collect_descendants(parent2children, parent) ==
    IF parent \in DOMAIN parent2children
    THEN UNION { { child } \cup collect_descendants(parent2children, child) :
                 child \in parent2children[parent] }
    ELSE {}

\* children: the processes grouped by their ppid.  A process list is kept
\* as the function from each pid to its ppid.
children(procs) ==
    [parent \in { procs[pid] : pid \in DOMAIN procs } |->
        { pid \in DOMAIN procs : procs[pid] = parent }]

\* descendants: for every key of children, what collect_descendants gathers.
descendants(procs) ==
    [parent \in DOMAIN children(procs) |->
        collect_descendants(children(procs), parent)]

\* The parents of pid, of their parents, and so on, n links up.
RECURSIVE Ancestors(_, _, _)
Ancestors(procs, pid, n) ==
    IF n = 0 \/ pid \notin DOMAIN procs THEN {}
    ELSE { procs[pid] } \cup Ancestors(procs, procs[pid], n - 1)

\* No process is its own ancestor.
Acyclic(procs) ==
    \A pid \in DOMAIN procs : pid \notin Ancestors(procs, pid, MaxPid + 1)

ProcLists ==
    { procs \in UNION { [D -> 0 .. MaxPid] : D \in SUBSET Pids } :
        Acyclic(procs) }

InitPs ==
    /\ state = "Off"
    /\ conf = <<>>
    /\ bar = BarFromConf(conf)
    /\ feeds = <<>>
    /\ expiration_timers = <<>>
    /\ output_timer = EnsureOutputScheduled("none")
    /\ mailbox = <<>>
    /\ sup = "run"
    /\ orphans = <<>>
    /\ detached = <<>>
    /\ pid_files = {}
    /\ off_task = [c \in Clients |-> "none"]
    /\ reply = [c \in Clients |-> "none"]
    /\ client = [c \in Clients |-> Idle]
    /\ daemon = "boot"
    /\ published = NoOutput
    /\ swept = FALSE
    /\ faults = 0
    /\ x11 = "none"
    /\ files = {}
    /\ probe \in { [op |-> "list", procs |-> procs, ret |-> << >>] :
                     procs \in ProcLists }
    /\ cap = MaxQueue
    /\ notified = FALSE

\* ps::descendants is called on the process list.
PsDescendants ==
    /\ probe.op = "list"
    /\ probe' = [probe EXCEPT !.op = "descendants",
                              !.ret = descendants(probe.procs)]
    /\ UNCHANGED << bar, beside_bar >>

SpecPs == InitPs /\ [][PsDescendants]_vars

\* ------------------------------------------------------------- properties
\* This step is handle() consuming a message of the given type.
Handled(type) == Receives(type) /\ Len(mailbox') = Len(mailbox) - 1

\* The sender of the message being handled.
From == Head(mailbox).from

\* Client c's outstanding request is an Off.
OffPending(c) ==
    \/ c = Main /\ daemon = "off_wait"
    \/ c \in Cli /\ client[c].pc \in { "off", "rl_off" }

\* No feed is live: every slot is empty, no process of a dropped feed is
\* left, no pid file is left.
NoFeedLive == Live(feeds) = {} /\ orphans = <<>> /\ pid_files = {}

\* C1: the reply to an Off request, in whatever state the request is
\* handled, is sent only when no feed is live any more (group killed, child
\* reaped, router finished, pid file removed); stated for the runs in which
\* nothing has failed.
C1_OffReplyOnlyWhenNoFeedLive ==
    [][\A c \in Clients :
          (OffPending(c) /\ reply[c] = "none" /\ reply'[c] # "none"
              /\ faults' = 0)
              => NoFeedLive']_vars

\* C2: under fair scheduling and without faults, every Offing period ends
\* in state Off and every deferred Off reply is sent, for every
\* configuration (N >= 0) and every history of unsolicited exits.
C2_OffingDrains ==
    /\ (state = "Offing") ~> (state = "Off" \/ faults > 0 \/ ~Running)
    /\ \A c \in Clients :
          (off_task[c] # "none")
              ~> (off_task[c] = "none" \/ faults > 0 \/ ~Running)

\* C3: in state Off every feed slot is empty and no expiry timer is armed,
\* also after an On that failed part-way.
C3_OffQuiescent ==
    state = "Off" =>
        /\ Live(feeds) = {}
        /\ \A i \in DOMAIN expiration_timers : expiration_timers[i] # "sleeping"

\* This step starts a feed.
Spawns ==
    \E i \in DOMAIN feeds' :
        /\ feeds'[i] = Some(NewFeed(i))
        /\ i \notin DOMAIN feeds \/ feeds[i] # feeds'[i]

\* C4: an On handled in state On is replied with success, one handled in
\* state Offing with failure; neither spawns a feed nor changes the state,
\* the feeds, the timers or the bar; feeds are spawned only by an On handled
\* in state Off.
C4_OnOutsideOffIsInert ==
    [][/\ (Handled("On") /\ state \in { "On", "Offing" }) =>
             /\ reply'[From] = (IF state = "On" THEN "ok" ELSE "offing")
             /\ UNCHANGED << state, feeds, expiration_timers, output_timer,
                             bar, orphans, pid_files >>
       /\ Spawns => (Handled("On") /\ state = "Off")]_vars

C4_Witness ==
    \E c \in Cli :
        client[c].pc = "on" /\ reply[c] = "offing" /\ state = "Offing"

\* C5: when starting a feed fails while On is handled in state Off, the
\* reply is a failure, the state stays Off, no later feed is started and
\* the feeds started before it stay alive.
C5_PartialOnKeepsStartedFeeds ==
    [][(Handled("On") /\ state = "Off" /\ faults' # faults) =>
          /\ reply'[From] \notin { "none", "ok" }
          /\ state' = "Off"
          /\ Len(feeds') < Len(conf)
          /\ \A i \in DOMAIN feeds' :
                /\ feeds'[i] = Some(NewFeed(i))
                /\ i \in pid_files']_vars

C5_Witness ==
    \E c \in Cli :
        /\ client[c].pc = "on" /\ reply[c] = "spawn"
        /\ state = "Off" /\ Live(feeds) # {}
        /\ \A i \in Live(feeds) : feeds[i][1].child = "run"

\* C6: when a reload is replied with success, the configuration was re-read
\* in state Off with every feed of the old generation reaped, and the state
\* is On when the reply is produced.
C6_ReloadRereadsWhenReaped ==
    [][\A c \in Cli :
          (client[c].pc = "rl_on" /\ reply[c] = "none" /\ reply'[c] = "ok")
              => (client[c].clean /\ state' = "On")]_vars

\* C7: the configuration changes only while a Reconf is handled in state
\* Off; a Reconf handled in On or Offing is replied with an error and
\* changes neither the configuration, the state, the feeds nor the bar.
C7_ConfChangesOnlyInOff ==
    [][/\ conf' # conf => (Handled("Reconf") /\ state = "Off")
       /\ (Handled("Reconf") /\ state # "Off") =>
             /\ reply'[From] = "notoff"
             /\ UNCHANGED << conf, state, feeds, bar >>]_vars

C7_Witness ==
    \E c \in Cli :
        client[c].pc = "rl_reconf" /\ reply[c] = "notoff" /\ state = "On"

\* An output timer is really pending: its task sleeps, or it has sent the
\* Output message that the mailbox still holds.
OutputPending ==
    \/ output_timer = "sleeping"
    \/ /\ output_timer = "done"
       /\ \E i \in DOMAIN mailbox : mailbox[i].type = "Output" /\ mailbox[i].own

\* C8: after an Input or an Expiration is handled in state On or Offing an
\* output timer is really pending, whatever happened in state Off before.
C8_OutputPendingAfterDirty ==
    [][((Handled("Input") \/ Handled("Expiration"))
            /\ state \in { "On", "Offing" } /\ sup' = "run")
          => OutputPending']_vars

\* C9: handling the exit of a feed that is in its slot never ends the
\* supervisor's loop, whatever the exit status and however the router task
\* ended.
C9_FeedExitNeverFatal ==
    [][(/\ Handled("FeedExit")
        /\ Head(mailbox).pos \in Live(feeds)
        /\ Head(mailbox).own)
          => sup' = "run"]_vars

\* C10: after the sweep no pid file is left and no process of a recorded
\* group is alive, whether or not the group still existed.
C10_SweepLeavesNothing ==
    swept =>
        /\ pid_files = {}
        /\ \A loc \in Locs : ~Signallable(Proc(loc))


\* C11: the daemon writes its files and starts its workers only when
\* neither <dir>/pid nor <dir>/socket exists; when either exists it refuses
\* to start and leaves both as they were; once it has exited cleanly neither
\* file is left.
C11_FilesGuardStart ==
    /\ [][daemon = "boot" /\ daemon' # "boot" =>
             IF files = {}
             THEN files' = DaemonFiles /\ daemon' = "init"
             ELSE files' = files /\ daemon' = "refused"]_vars
    /\ [][daemon' \notin { "boot", "refused" } => daemon # "boot" \/ files = {}]_vars
    /\ [](daemon = "exited" => files = {})

\* The daemon has refused to start next to a socket file without a pid file.
C11_Witness == daemon = "refused" /\ files = { "socket" }

\* C12: on a signal the daemon sends Off and waits; it goes on to remove
\* its files only with the reply in hand, or, when off() failed, after the
\* orphan sweep has run; the files are removed in no other step.
C12_OffBeforeFilesRemoved ==
    /\ [][daemon = "serve" /\ daemon' # "serve" /\ sup = "run" =>
             /\ mailbox' = Append(mailbox, MsgOff(Main))
             /\ daemon' = "off_wait"
             /\ files' = files]_vars
    /\ [][daemon # "closing" /\ daemon' = "closing" =>
             /\ files' = files
             /\ \/ daemon = "off_wait" /\ reply[Main] = "ok"
                \/ swept']_vars
    /\ [][daemon # "boot" /\ files' # files =>
             daemon = "closing" /\ files' = {}]_vars

\* The daemon has exited after a failed off() and the sweep.
C12_Witness == daemon = "exited" /\ swept /\ files = {}

\* What the status command prints in this step: the status in hand when
\* Client::status returns, nothing in every other step.
StatusPrinted(c) ==
    IF client[c].pc = "status" /\ client'[c].pc = "idle"
    THEN StatusShown(reply[c]) ELSE "nothing"

\* C13: when connecting to the control socket fails, the status command
\* yields Down.
C13_AbsentYieldsDown ==
    [][\A c \in Cli :
          ConnectFails /\ client[c].pc = "idle" /\ client'[c] # client[c]
              => StatusPrinted(c) = "Down"]_vars

\* The rendering built from the right: the pads around the slots, a
\* separator before every slot but the first.
RECURSIVE Joined(_)
Joined(slots) ==
    IF slots = <<>> THEN <<>>
    ELSE IF Len(slots) = 1 THEN slots[1]
    ELSE Joined(SubSeq(slots, 1, Len(slots) - 1)) \o Sep \o slots[Len(slots)]

\* C14: after any sequence of set, clear, expire and clear_all the bar has
\* as many slots as it was built with, and what it shows is pad_left, the
\* slots joined by sep, pad_right.
C14_ShowIsPaddedJoin ==
    /\ Len(bar.slots) = Len(conf)
    /\ BarShow(bar) = PadLeft \o Joined(bar.slots) \o PadRight
    /\ probe.op = "show_unshown" /\ probe.ret # None
           => probe.ret[1] = PadLeft \o Joined(bar.slots) \o PadRight

\* A bar of two slots, both written, one of them cleared, has been shown.
C14_Witness ==
    /\ Len(bar.slots) = 2
    /\ probe.op = "show_unshown" /\ probe.ret # None
    /\ bar.slots[1] = << ClearChar >> /\ bar.slots[2] = << "a" >>

\* C15: a new bar is dirty; show_unshown returns Some exactly when set,
\* clear or expire has run since the last Some (or since construction), and
\* changes the bar only when it returns Some, which clears the dirty bit.
C15_DirtyIsSticky ==
    /\ [](probe.op = "new" => ~bar.shown)
    /\ [](probe.mutated <=> ~bar.shown)
    /\ [][probe'.op = "show_unshown" =>
             /\ probe'.ret # None <=> probe.mutated
             /\ probe'.ret = None => bar' = bar
             /\ probe'.ret # None => bar'.shown /\ bar'.slots = bar.slots]_vars

\* show_unshown has returned None: nothing was written since it last
\* returned the bar.
C15_Witness ==
    probe.op = "show_unshown" /\ probe.ret = None /\ Len(bar.slots) = 2

\* C16: after clear(i) or expire(i), slot i holds only the clear or expiry
\* character, as many of them as the slot held characters before.
C16_OverwriteKeepsLength ==
    [][probe'.op \in { "clear", "expire" } =>
          LET i == probe'.i
              c == IF probe'.op = "clear" THEN ClearChar ELSE ExpiryChar
          IN /\ \A k \in DOMAIN bar'.slots[i] : bar'.slots[i][k] = c
             /\ Len(bar'.slots[i]) = Len(bar.slots[i])]_vars

\* C17: in the states On and Offing the feeds, the expiry timers and the
\* configured feeds are equally many (off_feed drains the timers just
\* before it sets the state to Off: the states inside that handler are
\* left out).
C17_VectorsAligned ==
    state \in { "On", "Offing" } /\ ~notified =>
        /\ Len(feeds) = Len(conf)
        /\ Len(expiration_timers) = Len(conf)

\* Offing with two configured feeds, the first of which has exited.
C17_Witness ==
    /\ state = "Offing" /\ Len(conf) = 2
    /\ feeds[1] = None /\ feeds[2] # None

\* C18: when FeedExit{pos} is handled in state On or Offing, the feed slot
\* is taken, bar slot pos is overwritten with the expiry character, one per
\* character it held, and the bar is published.
C18_FeedExitExpiresSlot ==
    [][Handled("FeedExit") /\ state \in { "On", "Offing" } /\ faults' = 0 =>
          LET pos == Head(mailbox).pos IN
          pos \in DOMAIN feeds /\ IsSome(feeds[pos]) =>
              /\ feeds'[pos] = None
              /\ bar'.slots[pos] =
                     [k \in 1 .. Len(bar.slots[pos]) |-> ExpiryChar]
              /\ bar'.shown
              /\ published' \in { Shown, Blank }]_vars

\* The supervisor is off with nothing started since, and the last thing
\* handed to the sink is the blank.
OffAndBlank == state = "Off" /\ Live(feeds) = {} /\ published = Blank

\* C19: the FeedExit that takes Offing to Off leaves no expiry timer and no
\* output timer, aborts those that were pending, and publishes a blank;
\* from then on the last published value stays the blank until an On is
\* handled.
C19_OffEndsBlank ==
    /\ [][Handled("FeedExit") /\ state = "Offing" /\ state' = "Off" =>
             /\ expiration_timers' = <<>>
             /\ output_timer' = "none"
             /\ detached' = detached
             /\ \A j \in DOMAIN mailbox' :
                    mailbox'[j].type \in { "Expiration", "Output" }
                        => ~mailbox'[j].own
             /\ OffAndBlank']_vars
    /\ [][OffAndBlank /\ ~Handled("On") => OffAndBlank']_vars

\* Off after two feeds were stopped and the blank went out to the sink.
C19_Witness ==
    /\ OffAndBlank /\ Len(feeds) = 2
    /\ x11 = "open" /\ faults = 0

\* This step is a handler in which a publish failed: Output and FeedExit
\* are the handlers that publish, and a failed publish is their only fault.
PublishFailed ==
    /\ Handled("Output") \/ Handled("FeedExit") \/ (~notified /\ notified')
    /\ faults' > faults

\* C20: a failed publish does not end the supervisor and leaves the state,
\* the feeds and the expiry timers as the handler sets them when the
\* publish succeeds; after the failure the X11 handle is absent, and the
\* next publish that succeeds opens it again.
C20_PublishFailureIsContained ==
    /\ [][PublishFailed =>
             LET pos == Head(mailbox).pos
                 last == /\ Receives("FeedExit") /\ state = "Offing"
                         /\ Live(feeds) \subseteq { pos }
             IN /\ sup' = "run"
                /\ state' = IF notified THEN "Off" ELSE state
                /\ notified' = (last /\ ~notified)
                /\ feeds' = IF Receives("FeedExit") /\ ~notified
                            THEN [feeds EXCEPT ![pos] = None] ELSE feeds
                /\ expiration_timers' = IF last THEN <<>> ELSE expiration_timers
                /\ output_timer' = "none" \/ output_timer' = output_timer
                /\ x11' = "none"]_vars
    /\ [][/\ Handled("Output") /\ state # "Off" /\ ~bar.shown
          /\ x11 = "none" /\ sup' = "run" /\ faults' = faults
          => x11' = "open"]_vars

\* The supervisor runs on in state On after a publish of the bar that
\* failed: the handle is absent.
C20_Witness ==
    /\ state = "On" /\ sup = "run"
    /\ published = Shown /\ x11 = "none" /\ faults = 1
    /\ Live(feeds) # {}

\* The daemon is shutting down and waits for the reply to its Off, and the
\* exit a feed's reaper has reported is a failed kill of its process group.
KillFailedInShutdown ==
    /\ daemon = "off_wait" /\ sup = "run"
    /\ \E j \in DOMAIN mailbox :
          /\ mailbox[j].type = "FeedExit"
          /\ mailbox[j].res = "err" /\ mailbox[j].own

\* C21: a failed kill during shutdown does not stop the shutdown: the
\* supervisor reaches Off, the daemon gets its reply, runs the orphan sweep
\* and exits.
C21_KillFailureStillSwept ==
    KillFailedInShutdown ~> (state = "Off" /\ swept /\ daemon = "exited")

\* C22: descendants maps every pid that has a child, and no other, to the
\* pids that have it among their ancestors: its children, their children,
\* and so on.
C22_DescendantsIsClosure ==
    probe.op = "descendants" =>
        LET procs == probe.procs
            ret == probe.ret
        IN /\ DOMAIN ret = { procs[pid] : pid \in DOMAIN procs }
           /\ \A parent \in DOMAIN ret :
                 ret[parent] = { pid \in DOMAIN procs :
                                   parent \in Ancestors(procs, pid, MaxPid + 1) }

\* descendants has run on a chain of three processes under pid 1, with a
\* fourth process elsewhere.
C22_Witness ==
    /\ probe.op = "descendants"
    /\ DOMAIN probe.procs = Pids
    /\ probe.procs[2] = 1 /\ probe.procs[3] = 2 /\ probe.procs[1] = 0
    /\ probe.ret[1] = { 2, 3 }

\* C23: the state changes only from Off to On when an On is handled and
\* every feed has started, from On to Offing when an Off is handled, and
\* from Offing to Off when a FeedExit is handled that leaves no feed live.
C23_StateMachine ==
    [][state' # state =>
          \/ /\ state = "Off" /\ state' = "On" /\ Handled("On")
             /\ Len(feeds') = Len(conf)
             /\ Live(feeds') = DOMAIN conf
             /\ reply'[Head(mailbox).from] = "ok"
          \/ /\ state = "On" /\ state' = "Offing" /\ Handled("Off")
          \/ /\ state = "Offing" /\ state' = "Off" /\ Handled("FeedExit")
             /\ Live(feeds') = {}]_vars

\* Off again, after the one feed that was started has exited in Offing.
C23_Witness ==
    /\ state = "Off" /\ sup = "run"
    /\ Len(feeds) = 1 /\ feeds[1] = None /\ pid_files = {}

\* C24: an Input, an Expiration or an Output handled in state Off leaves
\* the bar, the feeds, the timers and the state as they were and publishes
\* nothing.
C24_IgnoredInOff ==
    [][/\ Handled("Input") \/ Handled("Expiration") \/ Handled("Output")
       /\ state = "Off"
       => /\ UNCHANGED << bar, feeds, expiration_timers, output_timer, state >>
          /\ UNCHANGED << published, x11, faults, sup, conf >>]_vars

\* The output timer armed at construction has fired and its message was
\* taken from the mailbox in state Off: the handle is still stored.
C24_Witness ==
    /\ state = "Off" /\ sup = "run" /\ daemon = "serve"
    /\ output_timer = "done" /\ mailbox = <<>>

\* C25: a feed slot that is None has no expiration timer stored at its
\* position.
C25_NoFeedNoTimer ==
    \A i \in DOMAIN feeds :
        feeds[i] = None =>
            (i \in DOMAIN expiration_timers => expiration_timers[i] = "none")

\* C26: whenever an Expiration is handled in state On or Offing, a timer
\* handle is stored at its position.
C26_ExpirationFindsHandle ==
    [][/\ Handled("Expiration")
       /\ state \in {"On", "Offing"}
       => /\ Head(mailbox).pos \in DOMAIN expiration_timers
          /\ expiration_timers[Head(mailbox).pos] # "none"]_vars

\* C27: whenever an Output is handled in state On or Offing, an output
\* timer handle is stored.
C27_OutputFindsHandle ==
    [][/\ Handled("Output")
       /\ state \in {"On", "Offing"}
       => output_timer # "none"]_vars

\* The output timers that are pending: the stored one while it sleeps,
\* the sleeping ones whose handle was dropped, and those whose Output is
\* in the mailbox.
PendingOutputs ==
    (IF output_timer = "sleeping" THEN 1 ELSE 0)
    + Cardinality({ j \in DOMAIN detached : detached[j].type = "Output" })
    + Cardinality({ j \in DOMAIN mailbox : mailbox[j].type = "Output" })

\* C28: at most one output timer is pending at any time.
C28_OneOutputPending == PendingOutputs <= 1

\* C29: the FeedExit of a feed enters the mailbox after every Input of
\* that feed: no Input of a feed waits behind the feed's FeedExit.
C29_FeedExitAfterInputs ==
    \A i, j \in DOMAIN mailbox :
        /\ i < j
        /\ mailbox[i].type = "FeedExit" /\ mailbox[i].own
        /\ mailbox[j].type = "Input" /\ mailbox[j].own
        => mailbox[j].pos # mailbox[i].pos

\* C30: the Expiration handler overwrites a bar slot with the expiry
\* filler only when the timer stored for that position, the one armed by
\* the last handled Input of the position or by the feed's start, has
\* fired.
C30_ExpiresOnlyAfterNewestTimer ==
    [][/\ Handled("Expiration")
       /\ bar' # bar \/ expiration_timers' # expiration_timers
       => /\ expiration_timers[Head(mailbox).pos] = "done"
          /\ bar' = BarExpire(bar, Head(mailbox).pos)]_vars

\* The slot was expired by an Expiration sent before the last Input was
\* handled: the handler waited for the timer that Input armed, whose own
\* message is next in the mailbox.
C30_Witness ==
    /\ state = "On" /\ sup = "run"
    /\ expiration_timers = << "none" >>
    /\ bar.slots = << << ExpiryChar, ExpiryChar >> >>
    /\ mailbox # <<>> /\ Head(mailbox).type = "Expiration"

\* This step is off_feed up to its call of clean_up and what follows it
\* at once: the message is taken, or the handler goes on to publish the
\* blank.
CleansUp ==
    /\ Receives("FeedExit") /\ ~notified
    /\ Handled("FeedExit") \/ notified'

\* C31: the pid file of a feed is there while the feed is in its slot
\* (until the sweep of a shutdown without supervisor); only the FeedExit
\* handler's cleanup or the sweep removes a pid file; the cleanup removes
\* the file of its own feed only, after the reaper task and the router
\* task have both ended without error, and leaves it in place when the
\* router task ended with an error.
C31_PidFileLifetime ==
    [][/\ ~swept' => Live(feeds') \subseteq pid_files'
       /\ ~(pid_files \subseteq pid_files') =>
              CleansUp \/ (~swept /\ swept')
       /\ CleansUp /\ Head(mailbox).pos \in Live(feeds) =>
              LET pos == Head(mailbox).pos
                  feed == feeds[pos][1]
              IN /\ feed.wk = "done" /\ feed.reader \in {"ok", "err"}
                 /\ pid_files' = IF feed.reader = "ok"
                                 THEN pid_files \ {pos} ELSE pid_files]_vars

\* The first of two feeds has exited and was cleaned up, its pid file is
\* gone; the second feed runs and its pid file is there.
C31_Witness ==
    /\ state = "On" /\ sup = "run"
    /\ Len(feeds) = 2 /\ Live(feeds) = {2}
    /\ pid_files = {2}

\* The reaper tasks of position p that have not ended, in fs and os.
Reapers(fs, os, p) ==
    Cardinality({ i \in Live(fs) : fs[i][1].pos = p /\ fs[i][1].wk = "wait" })
    + Cardinality({ j \in DOMAIN os : os[j].pos = p /\ os[j].wk = "wait" })

\* The FeedExit messages of position p in q.
FeedExits(q, p) ==
    Cardinality({ j \in DOMAIN q : q[j].type = "FeedExit" /\ q[j].pos = p })

\* C32: while the supervisor's channel is open, every step in which the
\* reaper task of a started feed ends puts exactly one FeedExit of the
\* feed's position into the mailbox, and no other step puts one there; a
\* reaper that has ended does not run again.
C32_OneFeedExitPerReaper ==
    [][sup = "run" =>
          \A p \in 1 .. MaxFeeds :
              LET started == IF Handled("On") /\ state = "Off"
                                /\ p \in DOMAIN feeds'
                                /\ feeds'[p] # None /\ feeds'[p][1].wk = "wait"
                             THEN 1 ELSE 0
                  taken == IF Handled("FeedExit") /\ Head(mailbox).pos = p
                           THEN 1 ELSE 0
                  ended == Reapers(feeds, orphans, p) + started
                           - Reapers(feeds', orphans', p)
                  sent == FeedExits(mailbox', p) + taken - FeedExits(mailbox, p)
              IN ended \in {0, 1} /\ sent = ended]_vars

\* The feed was stopped, killing its process group failed, and its reaper
\* has ended: one FeedExit carrying the error is in the mailbox.
C32_Witness ==
    /\ state = "Offing" /\ sup = "run"
    /\ Len(feeds) = 1 /\ feeds[1] # None
    /\ feeds[1][1].wk = "done" /\ feeds[1][1].child = "run"
    /\ \E j \in DOMAIN mailbox :
          mailbox[j].type = "FeedExit" /\ mailbox[j].res = "err"

\* C33: whenever the supervisor has a FeedExit to handle, the slot at its
\* position holds a feed, and that feed is the one whose reaper sent the
\* message.
C33_FeedExitMeetsItsFeed ==
    Receives("FeedExit") =>
        /\ Head(mailbox).pos \in Live(feeds)
        /\ Head(mailbox).own

\* C34: when the handler of the last FeedExit calls notify_waiters, every
\* task spawned for a deferred Off reply is already waiting on the Notify.
C34_ReplyTaskRegistered ==
    [][~notified /\ notified'
       => \A c \in Clients : off_task[c] # "spawned"]_vars

\* C35: the reply of a deferred Off is sent, and the daemon's files are
\* removed at shutdown, only when the off_feed that woke the reply task
\* has published the blank and set the state to Off.
C35_ReplyAfterBlank ==
    [][/\ \A c \in Clients :
             off_task[c] = "woken" /\ reply[c] = "none" /\ reply'[c] # "none"
                 => ~notified
       /\ daemon = "closing" /\ daemon' = "exited" => ~notified]_vars

\* C36: whenever the supervisor has an Expiration to handle outside state
\* Off and a handle is stored at its position, the handle is the one of
\* the timer that sent this message, and that timer is over, so that the
\* await of the handle returns at once.
C36_ExpirationAwaitsItsTimer ==
    /\ Receives("Expiration") /\ ~notified /\ state # "Off"
    /\ Head(mailbox).pos \in DOMAIN expiration_timers
    /\ expiration_timers[Head(mailbox).pos] # "none"
    => /\ Head(mailbox).own
       /\ TimerOver(expiration_timers[Head(mailbox).pos])

\* The supervisor is inside clean_up for a feed that nobody stopped and
\* whose shell has exited.
CleansUpUnsolicited ==
    /\ Receives("FeedExit") /\ ~notified /\ Head(mailbox).own
    /\ Head(mailbox).pos \in Live(feeds)
    /\ ~feeds[Head(mailbox).pos][1].life

\* C37: the handling of the FeedExit of a feed whose shell exited by
\* itself always comes to an end (or the supervisor ends).
C37_UnsolicitedExitIsHandled == CleansUpUnsolicited ~> ~CleansUpUnsolicited

\* C38: an Input, an Expiration or an Output sent for an earlier On and
\* handled after a later on() changes neither the bar nor a timer handle
\* and does not end the supervisor.
C38_OldMessagesAreInert ==
    [][/\ Handled("Input") \/ Handled("Expiration") \/ Handled("Output")
       /\ Head(mailbox).old
       => UNCHANGED << bar, expiration_timers, output_timer, sup >>]_vars

\* C39: a Status request that is answered with a status is answered UpOff
\* exactly when the state is Off and UpOn otherwise, and answering it does
\* not end the supervisor.
C39_StatusTellsState ==
    [][Handled("Status") =>
          /\ sup' = sup
          /\ reply'[From] \in { "UpOff", "UpOn" } =>
                 (reply'[From] = "UpOff" <=> state = "Off")]_vars

\* C40: when server() has returned after writing its pid file, the pid
\* file and the socket file are gone and no process of a feed is left.
C40_ReturnLeavesNothing ==
    daemon \in { "exited", "failed" } =>
        /\ files \cap DaemonFiles = {}
        /\ \A loc \in Locs : Proc(loc).child = "dead"

============================================================================
